---- MODULE Spec2Model ----
(***************************************************************************)
(* Turkish folk fret calculator (src/app.py): the pitch-list parser, the   *)
(* token parser, the octave-wrap resolver of build_rows and the Streamlit  *)
(* script that drives them.                                                *)
(*                                                                         *)
(* Representation.                                                         *)
(*  - A Python str is a sequence of characters, each character a one-      *)
(*    character TLA+ string; the two Unicode glyphs the parser rewrites    *)
(*    are the characters SHARP_GLYPH and FLAT_GLYPH, and a character       *)
(*    without an escape is written by its code point ("U+00A0").           *)
(*  - Cents are integers in units of 1/10000 cent (U == one cent), so that *)
(*    round(proposed, 3) is a real rounding.  The floats the wrap decision *)
(*    compares carry, next to this decimal value, what their binary value  *)
(*    differs from it (see "Python floats" below).  A cents value is       *)
(*    below 2^31 / 10000 = 214748 cents in magnitude.                      *)
(*  - Frequencies and lengths are integers in units of 1/100 (Hz, length   *)
(*    unit); 2^(c/1200) is computed in fixed point, to a few parts in      *)
(*    10000.  Integers are 32 bits wide: a frequency or a length more than *)
(*    some 15 octaves above the open string is not representable.          *)
(***************************************************************************)
EXTENDS Integers, Sequences, FiniteSets, TLC

(***************************************************************************)
(* Characters and the str methods the parsers use.                         *)
(***************************************************************************)
SHARP_GLYPH == "U+266F"
FLAT_GLYPH == "U+266D"

Uppers == <<"A","B","C","D","E","F","G","H","I","J","K","L","M",
            "N","O","P","Q","R","S","T","U","V","W","X","Y","Z">>
Lowers == <<"a","b","c","d","e","f","g","h","i","j","k","l","m",
            "n","o","p","q","r","s","t","u","v","w","x","y","z">>

\* The characters str.isspace() holds for: what strip() and split() take as
\* white space.  Those without an escape are written by their code point.
WHITESPACE ==
    { "\t", "\n", "U+000B", "\f", "\r", "U+001C", "U+001D", "U+001E", "U+001F",
      " ", "U+0085", "U+00A0", "U+1680", "U+2000", "U+2001", "U+2002", "U+2003",
      "U+2004", "U+2005", "U+2006", "U+2007", "U+2008", "U+2009", "U+200A",
      "U+2028", "U+2029", "U+202F", "U+205F", "U+3000" }

IsSpace(c) == c \in WHITESPACE

HexDigits == <<"0","1","2","3","4","5","6","7","8","9","A","B","C","D","E","F">>

\* n in hexadecimal, in w digits or more.
RECURSIVE Hex(_, _)
Hex(n, w) ==
    IF n = 0 /\ w <= 0 THEN "" ELSE Hex(n \div 16, w - 1) \o HexDigits[(n % 16) + 1]

\* The character of code point n: a letter, or a character beyond ASCII.
Char(n) ==
    IF n \in \H41..\H5A THEN Uppers[n - \H40]
    ELSE IF n \in \H61..\H7A THEN Lowers[n - \H60]
    ELSE "U+" \o Hex(n, 4)

CodePoints(ranges) == UNION { {Char(n) : n \in r[1]..r[2]} : r \in ranges }

\* str.lower() (Unicode 14.0.0, CPython 3.11).  The characters it changes, as
\* <<first, last, step, offset>>: every step-th code point from first to
\* last becomes the code point offset further on.
LOWER_RANGES ==
    {
       <<\H0041, \H005A, 1, 32>>, <<\H00C0, \H00D6, 1, 32>>, <<\H00D8, \H00DE, 1, 32>>, <<\H0100, \H012E, 2, 1>>,
       <<\H0132, \H0136, 2, 1>>, <<\H0139, \H0147, 2, 1>>, <<\H014A, \H0176, 2, 1>>, <<\H0178, \H0178, 1, -121>>,
       <<\H0179, \H017D, 2, 1>>, <<\H0181, \H0181, 1, 210>>, <<\H0182, \H0184, 2, 1>>, <<\H0186, \H0186, 1, 206>>,
       <<\H0187, \H0187, 1, 1>>, <<\H0189, \H018A, 1, 205>>, <<\H018B, \H018B, 1, 1>>, <<\H018E, \H018E, 1, 79>>,
       <<\H018F, \H018F, 1, 202>>, <<\H0190, \H0190, 1, 203>>, <<\H0191, \H0191, 1, 1>>, <<\H0193, \H0193, 1, 205>>,
       <<\H0194, \H0194, 1, 207>>, <<\H0196, \H0196, 1, 211>>, <<\H0197, \H0197, 1, 209>>, <<\H0198, \H0198, 1, 1>>,
       <<\H019C, \H019C, 1, 211>>, <<\H019D, \H019D, 1, 213>>, <<\H019F, \H019F, 1, 214>>, <<\H01A0, \H01A4, 2, 1>>,
       <<\H01A6, \H01A6, 1, 218>>, <<\H01A7, \H01A7, 1, 1>>, <<\H01A9, \H01A9, 1, 218>>, <<\H01AC, \H01AC, 1, 1>>,
       <<\H01AE, \H01AE, 1, 218>>, <<\H01AF, \H01AF, 1, 1>>, <<\H01B1, \H01B2, 1, 217>>, <<\H01B3, \H01B5, 2, 1>>,
       <<\H01B7, \H01B7, 1, 219>>, <<\H01B8, \H01B8, 1, 1>>, <<\H01BC, \H01BC, 1, 1>>, <<\H01C4, \H01C4, 1, 2>>,
       <<\H01C5, \H01C5, 1, 1>>, <<\H01C7, \H01C7, 1, 2>>, <<\H01C8, \H01C8, 1, 1>>, <<\H01CA, \H01CA, 1, 2>>,
       <<\H01CB, \H01DB, 2, 1>>, <<\H01DE, \H01EE, 2, 1>>, <<\H01F1, \H01F1, 1, 2>>, <<\H01F2, \H01F4, 2, 1>>,
       <<\H01F6, \H01F6, 1, -97>>, <<\H01F7, \H01F7, 1, -56>>, <<\H01F8, \H021E, 2, 1>>, <<\H0220, \H0220, 1, -130>>,
       <<\H0222, \H0232, 2, 1>>, <<\H023A, \H023A, 1, 10795>>, <<\H023B, \H023B, 1, 1>>, <<\H023D, \H023D, 1, -163>>,
       <<\H023E, \H023E, 1, 10792>>, <<\H0241, \H0241, 1, 1>>, <<\H0243, \H0243, 1, -195>>, <<\H0244, \H0244, 1, 69>>,
       <<\H0245, \H0245, 1, 71>>, <<\H0246, \H024E, 2, 1>>, <<\H0370, \H0372, 2, 1>>, <<\H0376, \H0376, 1, 1>>,
       <<\H037F, \H037F, 1, 116>>, <<\H0386, \H0386, 1, 38>>, <<\H0388, \H038A, 1, 37>>, <<\H038C, \H038C, 1, 64>>,
       <<\H038E, \H038F, 1, 63>>, <<\H0391, \H03A1, 1, 32>>, <<\H03A3, \H03AB, 1, 32>>, <<\H03CF, \H03CF, 1, 8>>,
       <<\H03D8, \H03EE, 2, 1>>, <<\H03F4, \H03F4, 1, -60>>, <<\H03F7, \H03F7, 1, 1>>, <<\H03F9, \H03F9, 1, -7>>,
       <<\H03FA, \H03FA, 1, 1>>, <<\H03FD, \H03FF, 1, -130>>, <<\H0400, \H040F, 1, 80>>, <<\H0410, \H042F, 1, 32>>,
       <<\H0460, \H0480, 2, 1>>, <<\H048A, \H04BE, 2, 1>>, <<\H04C0, \H04C0, 1, 15>>, <<\H04C1, \H04CD, 2, 1>>,
       <<\H04D0, \H052E, 2, 1>>, <<\H0531, \H0556, 1, 48>>, <<\H10A0, \H10C5, 1, 7264>>, <<\H10C7, \H10C7, 1, 7264>>,
       <<\H10CD, \H10CD, 1, 7264>>, <<\H13A0, \H13EF, 1, 38864>>, <<\H13F0, \H13F5, 1, 8>>, <<\H1C90, \H1CBA, 1, -3008>>,
       <<\H1CBD, \H1CBF, 1, -3008>>, <<\H1E00, \H1E94, 2, 1>>, <<\H1E9E, \H1E9E, 1, -7615>>, <<\H1EA0, \H1EFE, 2, 1>>,
       <<\H1F08, \H1F0F, 1, -8>>, <<\H1F18, \H1F1D, 1, -8>>, <<\H1F28, \H1F2F, 1, -8>>, <<\H1F38, \H1F3F, 1, -8>>,
       <<\H1F48, \H1F4D, 1, -8>>, <<\H1F59, \H1F5F, 2, -8>>, <<\H1F68, \H1F6F, 1, -8>>, <<\H1F88, \H1F8F, 1, -8>>,
       <<\H1F98, \H1F9F, 1, -8>>, <<\H1FA8, \H1FAF, 1, -8>>, <<\H1FB8, \H1FB9, 1, -8>>, <<\H1FBA, \H1FBB, 1, -74>>,
       <<\H1FBC, \H1FBC, 1, -9>>, <<\H1FC8, \H1FCB, 1, -86>>, <<\H1FCC, \H1FCC, 1, -9>>, <<\H1FD8, \H1FD9, 1, -8>>,
       <<\H1FDA, \H1FDB, 1, -100>>, <<\H1FE8, \H1FE9, 1, -8>>, <<\H1FEA, \H1FEB, 1, -112>>, <<\H1FEC, \H1FEC, 1, -7>>,
       <<\H1FF8, \H1FF9, 1, -128>>, <<\H1FFA, \H1FFB, 1, -126>>, <<\H1FFC, \H1FFC, 1, -9>>, <<\H2126, \H2126, 1, -7517>>,
       <<\H212A, \H212A, 1, -8383>>, <<\H212B, \H212B, 1, -8262>>, <<\H2132, \H2132, 1, 28>>, <<\H2160, \H216F, 1, 16>>,
       <<\H2183, \H2183, 1, 1>>, <<\H24B6, \H24CF, 1, 26>>, <<\H2C00, \H2C2F, 1, 48>>, <<\H2C60, \H2C60, 1, 1>>,
       <<\H2C62, \H2C62, 1, -10743>>, <<\H2C63, \H2C63, 1, -3814>>, <<\H2C64, \H2C64, 1, -10727>>, <<\H2C67, \H2C6B, 2, 1>>,
       <<\H2C6D, \H2C6D, 1, -10780>>, <<\H2C6E, \H2C6E, 1, -10749>>, <<\H2C6F, \H2C6F, 1, -10783>>, <<\H2C70, \H2C70, 1, -10782>>,
       <<\H2C72, \H2C72, 1, 1>>, <<\H2C75, \H2C75, 1, 1>>, <<\H2C7E, \H2C7F, 1, -10815>>, <<\H2C80, \H2CE2, 2, 1>>,
       <<\H2CEB, \H2CED, 2, 1>>, <<\H2CF2, \H2CF2, 1, 1>>, <<\HA640, \HA66C, 2, 1>>, <<\HA680, \HA69A, 2, 1>>,
       <<\HA722, \HA72E, 2, 1>>, <<\HA732, \HA76E, 2, 1>>, <<\HA779, \HA77B, 2, 1>>, <<\HA77D, \HA77D, 1, -35332>>,
       <<\HA77E, \HA786, 2, 1>>, <<\HA78B, \HA78B, 1, 1>>, <<\HA78D, \HA78D, 1, -42280>>, <<\HA790, \HA792, 2, 1>>,
       <<\HA796, \HA7A8, 2, 1>>, <<\HA7AA, \HA7AA, 1, -42308>>, <<\HA7AB, \HA7AB, 1, -42319>>, <<\HA7AC, \HA7AC, 1, -42315>>,
       <<\HA7AD, \HA7AD, 1, -42305>>, <<\HA7AE, \HA7AE, 1, -42308>>, <<\HA7B0, \HA7B0, 1, -42258>>, <<\HA7B1, \HA7B1, 1, -42282>>,
       <<\HA7B2, \HA7B2, 1, -42261>>, <<\HA7B3, \HA7B3, 1, 928>>, <<\HA7B4, \HA7C2, 2, 1>>, <<\HA7C4, \HA7C4, 1, -48>>,
       <<\HA7C5, \HA7C5, 1, -42307>>, <<\HA7C6, \HA7C6, 1, -35384>>, <<\HA7C7, \HA7C9, 2, 1>>, <<\HA7D0, \HA7D0, 1, 1>>,
       <<\HA7D6, \HA7D8, 2, 1>>, <<\HA7F5, \HA7F5, 1, 1>>, <<\HFF21, \HFF3A, 1, 32>>, <<\H10400, \H10427, 1, 40>>,
       <<\H104B0, \H104D3, 1, 40>>, <<\H10570, \H1057A, 1, 39>>, <<\H1057C, \H1058A, 1, 39>>, <<\H1058C, \H10592, 1, 39>>,
       <<\H10594, \H10595, 1, 39>>, <<\H10C80, \H10CB2, 1, 64>>, <<\H118A0, \H118BF, 1, 32>>, <<\H16E40, \H16E5F, 1, 32>>,
       <<\H1E900, \H1E921, 1, 34>>
    }

\* The one character that becomes two is the capital I with dot above.
LOWER_PAIRS ==
    { <<"U+0130", <<"i", "U+0307">>>> } \cup
    UNION { { <<Char(n), <<Char(n + r[4])>>>> :
                n \in {m \in r[1]..r[2] : (m - r[1]) % r[3] = 0} } : r \in LOWER_RANGES }

LowerTab ==
    [c \in {p[1] : p \in LOWER_PAIRS} |-> (CHOOSE p \in LOWER_PAIRS : p[1] = c)[2]]

LowerDomain == DOMAIN LowerTab

LowerChar(c) == IF c \in LowerDomain THEN LowerTab[c] ELSE <<c>>

\* The characters a capital sigma looks through to find its neighbours
\* (Case_Ignorable).
CASE_IGNORABLE_RANGES ==
    {
      <<\H00A8, \H00A8>>, <<\H00AD, \H00AD>>, <<\H00AF, \H00AF>>, <<\H00B4, \H00B4>>, <<\H00B7, \H00B8>>,
      <<\H02B0, \H036F>>, <<\H0374, \H0375>>, <<\H037A, \H037A>>, <<\H0384, \H0385>>, <<\H0387, \H0387>>,
      <<\H0483, \H0489>>, <<\H0559, \H0559>>, <<\H055F, \H055F>>, <<\H0591, \H05BD>>, <<\H05BF, \H05BF>>,
      <<\H05C1, \H05C2>>, <<\H05C4, \H05C5>>, <<\H05C7, \H05C7>>, <<\H05F4, \H05F4>>, <<\H0600, \H0605>>,
      <<\H0610, \H061A>>, <<\H061C, \H061C>>, <<\H0640, \H0640>>, <<\H064B, \H065F>>, <<\H0670, \H0670>>,
      <<\H06D6, \H06DD>>, <<\H06DF, \H06E8>>, <<\H06EA, \H06ED>>, <<\H070F, \H070F>>, <<\H0711, \H0711>>,
      <<\H0730, \H074A>>, <<\H07A6, \H07B0>>, <<\H07EB, \H07F5>>, <<\H07FA, \H07FA>>, <<\H07FD, \H07FD>>,
      <<\H0816, \H082D>>, <<\H0859, \H085B>>, <<\H0888, \H0888>>, <<\H0890, \H0891>>, <<\H0898, \H089F>>,
      <<\H08C9, \H0902>>, <<\H093A, \H093A>>, <<\H093C, \H093C>>, <<\H0941, \H0948>>, <<\H094D, \H094D>>,
      <<\H0951, \H0957>>, <<\H0962, \H0963>>, <<\H0971, \H0971>>, <<\H0981, \H0981>>, <<\H09BC, \H09BC>>,
      <<\H09C1, \H09C4>>, <<\H09CD, \H09CD>>, <<\H09E2, \H09E3>>, <<\H09FE, \H09FE>>, <<\H0A01, \H0A02>>,
      <<\H0A3C, \H0A3C>>, <<\H0A41, \H0A42>>, <<\H0A47, \H0A48>>, <<\H0A4B, \H0A4D>>, <<\H0A51, \H0A51>>,
      <<\H0A70, \H0A71>>, <<\H0A75, \H0A75>>, <<\H0A81, \H0A82>>, <<\H0ABC, \H0ABC>>, <<\H0AC1, \H0AC5>>,
      <<\H0AC7, \H0AC8>>, <<\H0ACD, \H0ACD>>, <<\H0AE2, \H0AE3>>, <<\H0AFA, \H0AFF>>, <<\H0B01, \H0B01>>,
      <<\H0B3C, \H0B3C>>, <<\H0B3F, \H0B3F>>, <<\H0B41, \H0B44>>, <<\H0B4D, \H0B4D>>, <<\H0B55, \H0B56>>,
      <<\H0B62, \H0B63>>, <<\H0B82, \H0B82>>, <<\H0BC0, \H0BC0>>, <<\H0BCD, \H0BCD>>, <<\H0C00, \H0C00>>,
      <<\H0C04, \H0C04>>, <<\H0C3C, \H0C3C>>, <<\H0C3E, \H0C40>>, <<\H0C46, \H0C48>>, <<\H0C4A, \H0C4D>>,
      <<\H0C55, \H0C56>>, <<\H0C62, \H0C63>>, <<\H0C81, \H0C81>>, <<\H0CBC, \H0CBC>>, <<\H0CBF, \H0CBF>>,
      <<\H0CC6, \H0CC6>>, <<\H0CCC, \H0CCD>>, <<\H0CE2, \H0CE3>>, <<\H0D00, \H0D01>>, <<\H0D3B, \H0D3C>>,
      <<\H0D41, \H0D44>>, <<\H0D4D, \H0D4D>>, <<\H0D62, \H0D63>>, <<\H0D81, \H0D81>>, <<\H0DCA, \H0DCA>>,
      <<\H0DD2, \H0DD4>>, <<\H0DD6, \H0DD6>>, <<\H0E31, \H0E31>>, <<\H0E34, \H0E3A>>, <<\H0E46, \H0E4E>>,
      <<\H0EB1, \H0EB1>>, <<\H0EB4, \H0EBC>>, <<\H0EC6, \H0EC6>>, <<\H0EC8, \H0ECD>>, <<\H0F18, \H0F19>>,
      <<\H0F35, \H0F35>>, <<\H0F37, \H0F37>>, <<\H0F39, \H0F39>>, <<\H0F71, \H0F7E>>, <<\H0F80, \H0F84>>,
      <<\H0F86, \H0F87>>, <<\H0F8D, \H0F97>>, <<\H0F99, \H0FBC>>, <<\H0FC6, \H0FC6>>, <<\H102D, \H1030>>,
      <<\H1032, \H1037>>, <<\H1039, \H103A>>, <<\H103D, \H103E>>, <<\H1058, \H1059>>, <<\H105E, \H1060>>,
      <<\H1071, \H1074>>, <<\H1082, \H1082>>, <<\H1085, \H1086>>, <<\H108D, \H108D>>, <<\H109D, \H109D>>,
      <<\H10FC, \H10FC>>, <<\H135D, \H135F>>, <<\H1712, \H1714>>, <<\H1732, \H1733>>, <<\H1752, \H1753>>,
      <<\H1772, \H1773>>, <<\H17B4, \H17B5>>, <<\H17B7, \H17BD>>, <<\H17C6, \H17C6>>, <<\H17C9, \H17D3>>,
      <<\H17D7, \H17D7>>, <<\H17DD, \H17DD>>, <<\H180B, \H180F>>, <<\H1843, \H1843>>, <<\H1885, \H1886>>,
      <<\H18A9, \H18A9>>, <<\H1920, \H1922>>, <<\H1927, \H1928>>, <<\H1932, \H1932>>, <<\H1939, \H193B>>,
      <<\H1A17, \H1A18>>, <<\H1A1B, \H1A1B>>, <<\H1A56, \H1A56>>, <<\H1A58, \H1A5E>>, <<\H1A60, \H1A60>>,
      <<\H1A62, \H1A62>>, <<\H1A65, \H1A6C>>, <<\H1A73, \H1A7C>>, <<\H1A7F, \H1A7F>>, <<\H1AA7, \H1AA7>>,
      <<\H1AB0, \H1ACE>>, <<\H1B00, \H1B03>>, <<\H1B34, \H1B34>>, <<\H1B36, \H1B3A>>, <<\H1B3C, \H1B3C>>,
      <<\H1B42, \H1B42>>, <<\H1B6B, \H1B73>>, <<\H1B80, \H1B81>>, <<\H1BA2, \H1BA5>>, <<\H1BA8, \H1BA9>>,
      <<\H1BAB, \H1BAD>>, <<\H1BE6, \H1BE6>>, <<\H1BE8, \H1BE9>>, <<\H1BED, \H1BED>>, <<\H1BEF, \H1BF1>>,
      <<\H1C2C, \H1C33>>, <<\H1C36, \H1C37>>, <<\H1C78, \H1C7D>>, <<\H1CD0, \H1CD2>>, <<\H1CD4, \H1CE0>>,
      <<\H1CE2, \H1CE8>>, <<\H1CED, \H1CED>>, <<\H1CF4, \H1CF4>>, <<\H1CF8, \H1CF9>>, <<\H1D2C, \H1D6A>>,
      <<\H1D78, \H1D78>>, <<\H1D9B, \H1DFF>>, <<\H1FBD, \H1FBD>>, <<\H1FBF, \H1FC1>>, <<\H1FCD, \H1FCF>>,
      <<\H1FDD, \H1FDF>>, <<\H1FED, \H1FEF>>, <<\H1FFD, \H1FFE>>, <<\H200B, \H200F>>, <<\H2018, \H2019>>,
      <<\H2024, \H2024>>, <<\H2027, \H2027>>, <<\H202A, \H202E>>, <<\H2060, \H2064>>, <<\H2066, \H206F>>,
      <<\H2071, \H2071>>, <<\H207F, \H207F>>, <<\H2090, \H209C>>, <<\H20D0, \H20F0>>, <<\H2C7C, \H2C7D>>,
      <<\H2CEF, \H2CF1>>, <<\H2D6F, \H2D6F>>, <<\H2D7F, \H2D7F>>, <<\H2DE0, \H2DFF>>, <<\H2E2F, \H2E2F>>,
      <<\H3005, \H3005>>, <<\H302A, \H302D>>, <<\H3031, \H3035>>, <<\H303B, \H303B>>, <<\H3099, \H309E>>,
      <<\H30FC, \H30FE>>, <<\HA015, \HA015>>, <<\HA4F8, \HA4FD>>, <<\HA60C, \HA60C>>, <<\HA66F, \HA672>>,
      <<\HA674, \HA67D>>, <<\HA67F, \HA67F>>, <<\HA69C, \HA69F>>, <<\HA6F0, \HA6F1>>, <<\HA700, \HA721>>,
      <<\HA770, \HA770>>, <<\HA788, \HA78A>>, <<\HA7F2, \HA7F4>>, <<\HA7F8, \HA7F9>>, <<\HA802, \HA802>>,
      <<\HA806, \HA806>>, <<\HA80B, \HA80B>>, <<\HA825, \HA826>>, <<\HA82C, \HA82C>>, <<\HA8C4, \HA8C5>>,
      <<\HA8E0, \HA8F1>>, <<\HA8FF, \HA8FF>>, <<\HA926, \HA92D>>, <<\HA947, \HA951>>, <<\HA980, \HA982>>,
      <<\HA9B3, \HA9B3>>, <<\HA9B6, \HA9B9>>, <<\HA9BC, \HA9BD>>, <<\HA9CF, \HA9CF>>, <<\HA9E5, \HA9E6>>,
      <<\HAA29, \HAA2E>>, <<\HAA31, \HAA32>>, <<\HAA35, \HAA36>>, <<\HAA43, \HAA43>>, <<\HAA4C, \HAA4C>>,
      <<\HAA70, \HAA70>>, <<\HAA7C, \HAA7C>>, <<\HAAB0, \HAAB0>>, <<\HAAB2, \HAAB4>>, <<\HAAB7, \HAAB8>>,
      <<\HAABE, \HAABF>>, <<\HAAC1, \HAAC1>>, <<\HAADD, \HAADD>>, <<\HAAEC, \HAAED>>, <<\HAAF3, \HAAF4>>,
      <<\HAAF6, \HAAF6>>, <<\HAB5B, \HAB5F>>, <<\HAB69, \HAB6B>>, <<\HABE5, \HABE5>>, <<\HABE8, \HABE8>>,
      <<\HABED, \HABED>>, <<\HFB1E, \HFB1E>>, <<\HFBB2, \HFBC2>>, <<\HFE00, \HFE0F>>, <<\HFE13, \HFE13>>,
      <<\HFE20, \HFE2F>>, <<\HFE52, \HFE52>>, <<\HFE55, \HFE55>>, <<\HFEFF, \HFEFF>>, <<\HFF07, \HFF07>>,
      <<\HFF0E, \HFF0E>>, <<\HFF1A, \HFF1A>>, <<\HFF3E, \HFF3E>>, <<\HFF40, \HFF40>>, <<\HFF70, \HFF70>>,
      <<\HFF9E, \HFF9F>>, <<\HFFE3, \HFFE3>>, <<\HFFF9, \HFFFB>>, <<\H101FD, \H101FD>>, <<\H102E0, \H102E0>>,
      <<\H10376, \H1037A>>, <<\H10780, \H10785>>, <<\H10787, \H107B0>>, <<\H107B2, \H107BA>>, <<\H10A01, \H10A03>>,
      <<\H10A05, \H10A06>>, <<\H10A0C, \H10A0F>>, <<\H10A38, \H10A3A>>, <<\H10A3F, \H10A3F>>, <<\H10AE5, \H10AE6>>,
      <<\H10D24, \H10D27>>, <<\H10EAB, \H10EAC>>, <<\H10F46, \H10F50>>, <<\H10F82, \H10F85>>, <<\H11001, \H11001>>,
      <<\H11038, \H11046>>, <<\H11070, \H11070>>, <<\H11073, \H11074>>, <<\H1107F, \H11081>>, <<\H110B3, \H110B6>>,
      <<\H110B9, \H110BA>>, <<\H110BD, \H110BD>>, <<\H110C2, \H110C2>>, <<\H110CD, \H110CD>>, <<\H11100, \H11102>>,
      <<\H11127, \H1112B>>, <<\H1112D, \H11134>>, <<\H11173, \H11173>>, <<\H11180, \H11181>>, <<\H111B6, \H111BE>>,
      <<\H111C9, \H111CC>>, <<\H111CF, \H111CF>>, <<\H1122F, \H11231>>, <<\H11234, \H11234>>, <<\H11236, \H11237>>,
      <<\H1123E, \H1123E>>, <<\H112DF, \H112DF>>, <<\H112E3, \H112EA>>, <<\H11300, \H11301>>, <<\H1133B, \H1133C>>,
      <<\H11340, \H11340>>, <<\H11366, \H1136C>>, <<\H11370, \H11374>>, <<\H11438, \H1143F>>, <<\H11442, \H11444>>,
      <<\H11446, \H11446>>, <<\H1145E, \H1145E>>, <<\H114B3, \H114B8>>, <<\H114BA, \H114BA>>, <<\H114BF, \H114C0>>,
      <<\H114C2, \H114C3>>, <<\H115B2, \H115B5>>, <<\H115BC, \H115BD>>, <<\H115BF, \H115C0>>, <<\H115DC, \H115DD>>,
      <<\H11633, \H1163A>>, <<\H1163D, \H1163D>>, <<\H1163F, \H11640>>, <<\H116AB, \H116AB>>, <<\H116AD, \H116AD>>,
      <<\H116B0, \H116B5>>, <<\H116B7, \H116B7>>, <<\H1171D, \H1171F>>, <<\H11722, \H11725>>, <<\H11727, \H1172B>>,
      <<\H1182F, \H11837>>, <<\H11839, \H1183A>>, <<\H1193B, \H1193C>>, <<\H1193E, \H1193E>>, <<\H11943, \H11943>>,
      <<\H119D4, \H119D7>>, <<\H119DA, \H119DB>>, <<\H119E0, \H119E0>>, <<\H11A01, \H11A0A>>, <<\H11A33, \H11A38>>,
      <<\H11A3B, \H11A3E>>, <<\H11A47, \H11A47>>, <<\H11A51, \H11A56>>, <<\H11A59, \H11A5B>>, <<\H11A8A, \H11A96>>,
      <<\H11A98, \H11A99>>, <<\H11C30, \H11C36>>, <<\H11C38, \H11C3D>>, <<\H11C3F, \H11C3F>>, <<\H11C92, \H11CA7>>,
      <<\H11CAA, \H11CB0>>, <<\H11CB2, \H11CB3>>, <<\H11CB5, \H11CB6>>, <<\H11D31, \H11D36>>, <<\H11D3A, \H11D3A>>,
      <<\H11D3C, \H11D3D>>, <<\H11D3F, \H11D45>>, <<\H11D47, \H11D47>>, <<\H11D90, \H11D91>>, <<\H11D95, \H11D95>>,
      <<\H11D97, \H11D97>>, <<\H11EF3, \H11EF4>>, <<\H13430, \H13438>>, <<\H16AF0, \H16AF4>>, <<\H16B30, \H16B36>>,
      <<\H16B40, \H16B43>>, <<\H16F4F, \H16F4F>>, <<\H16F8F, \H16F9F>>, <<\H16FE0, \H16FE1>>, <<\H16FE3, \H16FE4>>,
      <<\H1AFF0, \H1AFF3>>, <<\H1AFF5, \H1AFFB>>, <<\H1AFFD, \H1AFFE>>, <<\H1BC9D, \H1BC9E>>, <<\H1BCA0, \H1BCA3>>,
      <<\H1CF00, \H1CF2D>>, <<\H1CF30, \H1CF46>>, <<\H1D167, \H1D169>>, <<\H1D173, \H1D182>>, <<\H1D185, \H1D18B>>,
      <<\H1D1AA, \H1D1AD>>, <<\H1D242, \H1D244>>, <<\H1DA00, \H1DA36>>, <<\H1DA3B, \H1DA6C>>, <<\H1DA75, \H1DA75>>,
      <<\H1DA84, \H1DA84>>, <<\H1DA9B, \H1DA9F>>, <<\H1DAA1, \H1DAAF>>, <<\H1E000, \H1E006>>, <<\H1E008, \H1E018>>,
      <<\H1E01B, \H1E021>>, <<\H1E023, \H1E024>>, <<\H1E026, \H1E02A>>, <<\H1E130, \H1E13D>>, <<\H1E2AE, \H1E2AE>>,
      <<\H1E2EC, \H1E2EF>>, <<\H1E8D0, \H1E8D6>>, <<\H1E944, \H1E94B>>, <<\H1F3FB, \H1F3FF>>, <<\HE0001, \HE0001>>,
      <<\HE0020, \HE007F>>, <<\HE0100, \HE01EF>>
    }

\* The grave accent has no place in a string: it is written "U+0060".
CASE_IGNORABLE == {"'", ".", ":", "^", "U+0060"} \cup CodePoints(CASE_IGNORABLE_RANGES)

\* The cased characters among the others.
CASED_RANGES ==
    {
      <<\H0041, \H005A>>, <<\H0061, \H007A>>, <<\H00AA, \H00AA>>, <<\H00B5, \H00B5>>, <<\H00BA, \H00BA>>,
      <<\H00C0, \H00D6>>, <<\H00D8, \H00F6>>, <<\H00F8, \H01BA>>, <<\H01BC, \H01BF>>, <<\H01C4, \H0293>>,
      <<\H0295, \H02AF>>, <<\H0370, \H0373>>, <<\H0376, \H0377>>, <<\H037B, \H037D>>, <<\H037F, \H037F>>,
      <<\H0386, \H0386>>, <<\H0388, \H038A>>, <<\H038C, \H038C>>, <<\H038E, \H03A1>>, <<\H03A3, \H03F5>>,
      <<\H03F7, \H0481>>, <<\H048A, \H052F>>, <<\H0531, \H0556>>, <<\H0560, \H0588>>, <<\H10A0, \H10C5>>,
      <<\H10C7, \H10C7>>, <<\H10CD, \H10CD>>, <<\H10D0, \H10FA>>, <<\H10FD, \H10FF>>, <<\H13A0, \H13F5>>,
      <<\H13F8, \H13FD>>, <<\H1C80, \H1C88>>, <<\H1C90, \H1CBA>>, <<\H1CBD, \H1CBF>>, <<\H1D00, \H1D2B>>,
      <<\H1D6B, \H1D77>>, <<\H1D79, \H1D9A>>, <<\H1E00, \H1F15>>, <<\H1F18, \H1F1D>>, <<\H1F20, \H1F45>>,
      <<\H1F48, \H1F4D>>, <<\H1F50, \H1F57>>, <<\H1F59, \H1F59>>, <<\H1F5B, \H1F5B>>, <<\H1F5D, \H1F5D>>,
      <<\H1F5F, \H1F7D>>, <<\H1F80, \H1FB4>>, <<\H1FB6, \H1FBC>>, <<\H1FBE, \H1FBE>>, <<\H1FC2, \H1FC4>>,
      <<\H1FC6, \H1FCC>>, <<\H1FD0, \H1FD3>>, <<\H1FD6, \H1FDB>>, <<\H1FE0, \H1FEC>>, <<\H1FF2, \H1FF4>>,
      <<\H1FF6, \H1FFC>>, <<\H2102, \H2102>>, <<\H2107, \H2107>>, <<\H210A, \H2113>>, <<\H2115, \H2115>>,
      <<\H2119, \H211D>>, <<\H2124, \H2124>>, <<\H2126, \H2126>>, <<\H2128, \H2128>>, <<\H212A, \H212D>>,
      <<\H212F, \H2134>>, <<\H2139, \H2139>>, <<\H213C, \H213F>>, <<\H2145, \H2149>>, <<\H214E, \H214E>>,
      <<\H2160, \H217F>>, <<\H2183, \H2184>>, <<\H24B6, \H24E9>>, <<\H2C00, \H2C7B>>, <<\H2C7E, \H2CE4>>,
      <<\H2CEB, \H2CEE>>, <<\H2CF2, \H2CF3>>, <<\H2D00, \H2D25>>, <<\H2D27, \H2D27>>, <<\H2D2D, \H2D2D>>,
      <<\HA640, \HA66D>>, <<\HA680, \HA69B>>, <<\HA722, \HA76F>>, <<\HA771, \HA787>>, <<\HA78B, \HA78E>>,
      <<\HA790, \HA7CA>>, <<\HA7D0, \HA7D1>>, <<\HA7D3, \HA7D3>>, <<\HA7D5, \HA7D9>>, <<\HA7F5, \HA7F6>>,
      <<\HA7FA, \HA7FA>>, <<\HAB30, \HAB5A>>, <<\HAB60, \HAB68>>, <<\HAB70, \HABBF>>, <<\HFB00, \HFB06>>,
      <<\HFB13, \HFB17>>, <<\HFF21, \HFF3A>>, <<\HFF41, \HFF5A>>, <<\H10400, \H1044F>>, <<\H104B0, \H104D3>>,
      <<\H104D8, \H104FB>>, <<\H10570, \H1057A>>, <<\H1057C, \H1058A>>, <<\H1058C, \H10592>>, <<\H10594, \H10595>>,
      <<\H10597, \H105A1>>, <<\H105A3, \H105B1>>, <<\H105B3, \H105B9>>, <<\H105BB, \H105BC>>, <<\H10C80, \H10CB2>>,
      <<\H10CC0, \H10CF2>>, <<\H118A0, \H118DF>>, <<\H16E40, \H16E7F>>, <<\H1D400, \H1D454>>, <<\H1D456, \H1D49C>>,
      <<\H1D49E, \H1D49F>>, <<\H1D4A2, \H1D4A2>>, <<\H1D4A5, \H1D4A6>>, <<\H1D4A9, \H1D4AC>>, <<\H1D4AE, \H1D4B9>>,
      <<\H1D4BB, \H1D4BB>>, <<\H1D4BD, \H1D4C3>>, <<\H1D4C5, \H1D505>>, <<\H1D507, \H1D50A>>, <<\H1D50D, \H1D514>>,
      <<\H1D516, \H1D51C>>, <<\H1D51E, \H1D539>>, <<\H1D53B, \H1D53E>>, <<\H1D540, \H1D544>>, <<\H1D546, \H1D546>>,
      <<\H1D54A, \H1D550>>, <<\H1D552, \H1D6A5>>, <<\H1D6A8, \H1D6C0>>, <<\H1D6C2, \H1D6DA>>, <<\H1D6DC, \H1D6FA>>,
      <<\H1D6FC, \H1D714>>, <<\H1D716, \H1D734>>, <<\H1D736, \H1D74E>>, <<\H1D750, \H1D76E>>, <<\H1D770, \H1D788>>,
      <<\H1D78A, \H1D7A8>>, <<\H1D7AA, \H1D7C2>>, <<\H1D7C4, \H1D7CB>>, <<\H1DF00, \H1DF09>>, <<\H1DF0B, \H1DF1E>>,
      <<\H1E900, \H1E943>>, <<\H1F130, \H1F149>>, <<\H1F150, \H1F169>>, <<\H1F170, \H1F189>>
    }

CASED == CodePoints(CASED_RANGES)

CAPITAL_SIGMA == "U+03A3"
SMALL_SIGMA == "U+03C3"
FINAL_SIGMA == "U+03C2"

RECURSIVE cased_before(_, _)
cased_before(s, j) ==
    IF j < 1 THEN FALSE
    ELSE IF s[j] \in CASE_IGNORABLE THEN cased_before(s, j - 1)
    ELSE s[j] \in CASED

RECURSIVE cased_after(_, _)
cased_after(s, j) ==
    IF j > Len(s) THEN FALSE
    ELSE IF s[j] \in CASE_IGNORABLE THEN cased_after(s, j + 1)
    ELSE s[j] \in CASED

\* A capital sigma that ends a word becomes the final sigma.
final_sigma(s, i) == cased_before(s, i - 1) /\ ~cased_after(s, i + 1)

lower_at(s, i) ==
    IF s[i] = CAPITAL_SIGMA
    THEN IF final_sigma(s, i) THEN <<FINAL_SIGMA>> ELSE <<SMALL_SIGMA>>
    ELSE LowerChar(s[i])

RECURSIVE lower_from(_, _)
lower_from(s, i) == IF i > Len(s) THEN <<>> ELSE lower_at(s, i) \o lower_from(s, i + 1)

lower(s) == lower_from(s, 1)

RECURSIVE lstrip(_)
lstrip(s) ==
    IF s # <<>> /\ IsSpace(s[1]) THEN lstrip(Tail(s)) ELSE s

RECURSIVE rstrip(_)
rstrip(s) ==
    IF s # <<>> /\ IsSpace(s[Len(s)]) THEN rstrip(SubSeq(s, 1, Len(s) - 1)) ELSE s

strip(s) == rstrip(lstrip(s))

startswith(s, p) == Len(s) >= Len(p) /\ SubSeq(s, 1, Len(p)) = p

endswith(s, p) == Len(s) >= Len(p) /\ SubSeq(s, Len(s) - Len(p) + 1, Len(s)) = p

\* str.replace(old, new): left to right, non-overlapping, one pass.
RECURSIVE replace(_, _, _)
replace(s, old, new) ==
    IF Len(s) < Len(old) THEN s
    ELSE IF startswith(s, old)
         THEN new \o replace(SubSeq(s, Len(old) + 1, Len(s)), old, new)
         ELSE <<s[1]>> \o replace(Tail(s), old, new)

\* str.split(sep) for a one-character separator: empty pieces are kept.
RECURSIVE split_on(_, _)
split_on(s, sep) ==
    IF \E i \in 1..Len(s) : s[i] = sep
    THEN LET i == CHOOSE j \in 1..Len(s) : s[j] = sep /\ \A k \in 1..(j - 1) : s[k] # sep
         IN  <<SubSeq(s, 1, i - 1)>> \o split_on(SubSeq(s, i + 1, Len(s)), sep)
    ELSE <<s>>

\* str.split() without a separator: runs of whitespace separate, no empty piece.
RECURSIVE split_ws(_)
split_ws(s) ==
    LET t == lstrip(s)
    IN  IF t = <<>> THEN <<>>
        ELSE IF \E i \in 1..Len(t) : IsSpace(t[i])
             THEN LET i == CHOOSE j \in 1..Len(t) :
                               IsSpace(t[j]) /\ \A k \in 1..(j - 1) : ~IsSpace(t[k])
                  IN  <<SubSeq(t, 1, i - 1)>> \o split_ws(SubSeq(t, i + 1, Len(t)))
             ELSE <<t>>

contains(s, c) == \E i \in 1..Len(s) : s[i] = c

(***************************************************************************)
(* Tables.                                                                 *)
(***************************************************************************)
U == 100 * 100

NoAcc == <<>>

BASE_FROM_RE ==
    (<<"r","e">> :> 0) @@
    (<<"m","i">> :> 200 * U) @@
    (<<"f","a">> :> 300 * U) @@
    (<<"f","a","#">> :> 400 * U) @@
    (<<"s","o","l">> :> 500 * U) @@
    (<<"s","o","l","#">> :> 600 * U) @@
    (<<"l","a">> :> 700 * U) @@
    (<<"s","i","b">> :> 800 * U) @@
    (<<"s","i">> :> 900 * U) @@
    (<<"d","o">> :> 1000 * U) @@
    (<<"d","o","#">> :> 1100 * U)

DEFAULT_CENTS_ALL ==
    (NoAcc :> 0) @@
    (<<"b">> :> -226400) @@
    (<<"b","1">> :> -226400) @@
    (<<"b","2">> :> -452800) @@
    (<<"#","3">> :> 679200) @@
    (<<"#">> :> 100 * U) @@
    (<<"#","1">> :> 226400) @@
    (<<"#","2">> :> 452800) @@
    (<<"#","5">> :> 1132000) @@
    (<<"b","3">> :> -679200) @@
    (<<"b","4">> :> -905700)

PresetNames == {"Folk", "AEU", "24-EDO"}

PRESET_CENTS ==
    [p \in PresetNames |->
        CASE p = "Folk"   -> [b |-> -226400, b2 |-> -452800, s3 |-> 679200]
          [] p = "AEU"    -> [b |-> -226400, b2 |-> -452800, s3 |-> 3 * 226400]
          [] p = "24-EDO" -> [b |-> -50 * U, b2 |-> -100 * U, s3 |-> 150 * U]]

\* The working table of the sidebar: the complete table with the three comma
\* fields (and the alias b1) mirrored into it.
WorkingTable(b_val, b2_val, s3_val) ==
    [a \in DOMAIN DEFAULT_CENTS_ALL |->
        CASE a = <<"b">>     -> b_val
          [] a = <<"b","1">> -> b_val
          [] a = <<"b","2">> -> b2_val
          [] a = <<"#","3">> -> s3_val
          [] OTHER           -> DEFAULT_CENTS_ALL[a]]

PresetTable(p) == WorkingTable(PRESET_CENTS[p].b, PRESET_CENTS[p].b2, PRESET_CENTS[p].s3)

(***************************************************************************)
(* Parsers.                                                                *)
(***************************************************************************)
AliasForms == { <<"s","i","b">>, <<"s","i"," ","b">>, <<"s","i"," ","b","b">> }

AccidentalTags ==
    << <<"#","5">>, <<"#","3">>, <<"#","2">>, <<"#","1">>, <<"#">>,
       <<"b","4">>, <<"b","3">>, <<"b","2">>, <<"b","1">>, <<"b">> >>

normalize(tok) ==
    replace(replace(replace(lower(strip(tok)), <<" ", " ">>, <<" ">>),
                    <<SHARP_GLYPH>>, <<"#">>),
            <<FLAT_GLYPH>>, <<"b">>)

\* lines 126-134 on the normalized text t: exc = "ValueError" when
\* `base, acc = t.split()` does not get exactly two pieces; otherwise the
\* pair (base, acc).
parse_plain(t) ==
    IF contains(t, " ")
    THEN LET parts == split_ws(t)
         IN  IF Len(parts) = 2
             THEN [exc |-> "", base |-> parts[1], acc |-> parts[2]]
             ELSE [exc |-> "ValueError", base |-> <<>>, acc |-> NoAcc]
    ELSE IF \E i \in 1..Len(AccidentalTags) : endswith(t, AccidentalTags[i])
    THEN LET i == CHOOSE j \in 1..Len(AccidentalTags) :
                      /\ endswith(t, AccidentalTags[j])
                      /\ \A k \in 1..(j - 1) : ~endswith(t, AccidentalTags[k])
             tag == AccidentalTags[i]
         IN  [exc |-> "", base |-> SubSeq(t, 1, Len(t) - Len(tag)), acc |-> tag]
    ELSE [exc |-> "", base |-> t, acc |-> NoAcc]

\* Mutant: the alias branch (lines 123-124) left out.
parse_token_no_alias(tok) == parse_plain(normalize(tok))

parse_token(tok) ==
    LET t == normalize(tok)
    IN  IF t \in AliasForms
        THEN [exc |-> "", base |-> <<"s","i","b">>, acc |-> NoAcc]
        ELSE parse_plain(t)

\* base_cents raises KeyError exactly when base_known is false.
base_known(base) == base \in DOMAIN BASE_FROM_RE

base_cents(base) == BASE_FROM_RE[base]

\* Mutant: the segments are not stripped.
RECURSIVE keep_nonempty_nostrip(_)
keep_nonempty_nostrip(segs) ==
    IF segs = <<>> THEN <<>>
    ELSE (IF Head(segs) # <<>> THEN <<Head(segs)>> ELSE <<>>)
             \o keep_nonempty_nostrip(Tail(segs))

\* lines 145-148.
RECURSIVE keep_nonempty(_)
keep_nonempty(segs) ==
    IF segs = <<>> THEN <<>>
    ELSE LET s == strip(Head(segs))
         IN  (IF s # <<>> THEN <<s>> ELSE <<>>) \o keep_nonempty(Tail(segs))

RECURSIVE parse_lines(_)
parse_lines(lines) ==
    IF lines = <<>> THEN <<>>
    ELSE keep_nonempty(split_on(Head(lines), ",")) \o parse_lines(Tail(lines))

parse_order(text) == parse_lines(split_on(text, "\n"))

(***************************************************************************)
(* Math helpers.  A ratio is an integer in units of 1/10000.               *)
(***************************************************************************)
RatioOne == 100 * 100

\* 10000 * ln 2, to the unit.
Ln2Scaled == 6931

RECURSIVE Pow2(_)
Pow2(n) == IF n <= 0 THEN 1 ELSE 2 * Pow2(n - 1)

\* e^(y / 10000) in units of 1/10000 for 0 <= y < 10000 * ln 2: the series
\* summed, each term rounded, until its terms vanish at this precision.
RECURSIVE ExpSeries(_, _, _)
ExpSeries(y, term, n) ==
    IF term = 0 THEN 0
    ELSE term + ExpSeries(y, (term * y + (RatioOne * n) \div 2) \div (RatioOne * n), n + 1)

\* a * (r / 10000) without leaving 32 bits.
MulRatio(a, r) ==
    LET m == IF a < 0 THEN -a ELSE a
        p == m * (r \div RatioOne) + (m * (r % RatioOne)) \div RatioOne
    IN  IF a < 0 THEN -p ELSE p

\* 2.0 ** (c / 1200.0), c in units of 1/10000 cent.
cents_to_ratio(c) ==
    LET x == c \div 1200
        k == x \div RatioOne
        f == x % RatioOne
        e == ExpSeries((f * Ln2Scaled + RatioOne \div 2) \div RatioOne, RatioOne, 1)
    IN  IF k >= 0 THEN e * Pow2(k) ELSE IF k < -30 THEN 0 ELSE e \div Pow2(-k)

freq_from_open(f_open, cents_from_open) ==
    MulRatio(f_open, cents_to_ratio(cents_from_open))

nut_to_fret_distance(scale_length, cents_from_open) ==
    scale_length - MulRatio(scale_length, cents_to_ratio(-cents_from_open))

(***************************************************************************)
(* Python floats (IEEE 754 binary64).  A float is the record               *)
(* [hi, c, n, s]: c is the decimal value in units of 1/10000 cent, and     *)
(* n / (625 * 2^s) cent is what the binary value differs from it, so that  *)
(* the float is c / 10^4 + n / (625 * 2^s) cents exactly.  The float is a  *)
(* multiple of 2^-s cent; s is the least such exponent that is not below   *)
(* 4 (so n is odd or s = 4), and n = 0 makes s = 4.  Every literal and     *)
(* every sum is rounded to the nearest binary64, ties to even, as the      *)
(* hardware does it, at the binary exponent of the value: from 2^-14 cent  *)
(* (the literal 0.0001) up to what 32 bits of c hold (2^17 cents and       *)
(* more).  The field hi counts 10^4 cents on top of c: it is 0 in every    *)
(* float but the sentinel -1e9 of last_shifted and what is subtracted from *)
(* it.                                                                     *)
(***************************************************************************)
Abs(x) == IF x < 0 THEN -x ELSE x

Sign(x) == IF x > 0 THEN 1 ELSE IF x < 0 THEN -1 ELSE 0

Cmp(v, w) == IF v > w THEN 1 ELSE IF v < w THEN -1 ELSE 0

Max(a, b) == IF a >= b THEN a ELSE b

\* One cent (2^0) in units of 1/10000 cent is 625 * 2^4.
FIVE4 == 5 * 5 * 5 * 5

\* The bits of a binary64 significand after the leading one.
MANT_BITS == 52

\* 2^29 <= 1e9 - v < 2^30 for every v that c holds.
SENTINEL_BINADE == 29

\* 2^n mod 625.
RECURSIVE Pow2Mod(_)
Pow2Mod(n) == IF n <= 0 THEN 1 ELSE (2 * Pow2Mod(n - 1)) % FIVE4

Pow2ModTab == [n \in 0..61 |-> Pow2Mod(n)]

Pow2Tab == [n \in 0..30 |-> Pow2(n)]

\* 2^(j-4) cents in units of 1/10000 cent.
GridTab == [j \in 0..21 |-> FIVE4 * Pow2(j)]

\* n * 2^d.
shift_left(n, d) == IF n = 0 THEN 0 ELSE n * Pow2Tab[d]

\* The residual n / (625 * 2^s) in its normal form.
RECURSIVE canon(_, _)
canon(n, s) ==
    IF n = 0 THEN [n |-> 0, s |-> 4]
    ELSE IF n % 2 = 0 /\ s > 4 THEN canon(n \div 2, s - 1)
    ELSE [n |-> n, s |-> s]

\* The sign of n1 / 2^s1 + n2 / 2^s2.  A residual is a few hundred units of
\* its own grid: 2^20 times the other outweighs it.
res_sign(n1, s1, n2, s2) ==
    IF n1 = 0 THEN Sign(n2)
    ELSE IF n2 = 0 THEN Sign(n1)
    ELSE IF s1 >= s2
    THEN IF s1 - s2 > 20 THEN Sign(n2) ELSE Sign(n1 + n2 * Pow2Tab[s1 - s2])
    ELSE IF s2 - s1 > 20 THEN Sign(n1) ELSE Sign(n1 * Pow2Tab[s2 - s1] + n2)

\* For a >= 625 (1/16 cent): the largest e >= lo with 2^e <= a / 10000.
RECURSIVE Log2Floor(_, _)
Log2Floor(a, lo) ==
    IF lo < 17 /\ a >= GridTab[lo + 5] THEN Log2Floor(a, lo + 1) ELSE lo

\* For 0 < a < 625: the least j >= lo with a * 2^j >= 625.
RECURSIVE Log2Ceil(_, _)
Log2Ceil(a, lo) == IF a * Pow2Tab[lo] >= FIVE4 THEN lo ELSE Log2Ceil(a, lo + 1)

\* A value whose decimal part is a power of two and whose residual pulls
\* it towards zero is in the binade below.
binade_from(c, sg, a, e) ==
    IF e >= -4 /\ a = GridTab[e + 4] /\ c * sg < 0 THEN e - 1 ELSE e

binade_of(c, sg, a) ==
    binade_from(c, sg, a, IF a >= FIVE4 THEN Log2Floor(a, -4) ELSE -4 - Log2Ceil(a, 1))

\* The binary exponent of c / 10^4 + r, c # 0, sg the sign of the residual r.
binade(c, sg) == binade_of(c, sg, Abs(c))

\* floor(n / 2^d), d <= 31.
FloorShift(n, d) == IF d > 30 THEN (IF n < 0 THEN -1 ELSE 0) ELSE n \div Pow2Tab[d]

\* The fractional part of n1 / 2^a1 + p / 2^(a1 - d) against 1/2, with
\* 0 <= p < 2^(a1 - d); d = 31 leaves p = 0.
half_cmp(n1, a1, d, p) ==
    IF a1 = 0 THEN -1
    ELSE IF d > 30
    THEN IF n1 >= 0 THEN Cmp(n1, Pow2Tab[30]) ELSE Cmp(n1, -Pow2Tab[30])
    ELSE Cmp(p * Pow2Tab[d] + (n1 % Pow2Tab[d]), Pow2Tab[a1 - 1])

frac_parts(n1, a1, a2, P) ==
    [fi |-> P \div Pow2Tab[a2], h |-> half_cmp(n1, a1, a1 - a2, P % Pow2Tab[a2])]

\* n1 / 2^a1 + n2 / 2^a2 for a1 >= a2 >= 0: its floor fi, and its fractional
\* part compared with 1/2 (h).
frac(n1, a1, n2, a2) == frac_parts(n1, a1, a2, n2 + FloorShift(n1, a1 - a2))

\* The number is M2 + (a fraction) modulo 2 * 625 in units of 2^-t / 625
\* cent, fi of it residual: the residual of the nearest multiple of 2^-t
\* cent, ties to the even multiple.
round_from(fi, h, M2, M) ==
    IF 2 * M + 1 > FIVE4 \/ (2 * M + 1 = FIVE4 /\ (h > 0 \/ (h = 0 /\ M2 >= FIVE4)))
    THEN fi - M + FIVE4
    ELSE fi - M

round_mod(fi, h, M2) == round_from(fi, h, M2, M2 % FIVE4)

\* c / 10^4 cents is c * 2^(t-4) units of 2^-t / 625 cent.
round_at(c, t, fi, h) ==
    canon(round_mod(fi, h, (2 * (((c % FIVE4) * Pow2ModTab[t - 5]) % FIVE4) + fi)
                               % (2 * FIVE4)),
          t)

round_frac(c, t, f) == round_at(c, t, f.fi, f.h)

\* The residual n / 2^s on the grid t: n / 2^a with a >= 0.
term(n, a) ==
    IF n = 0 THEN [n |-> 0, a |-> 0]
    ELSE IF a < 0 THEN [n |-> n * Pow2Tab[-a], a |-> 0]
    ELSE [n |-> n, a |-> a]

rounded_sum(c, t, u, v) ==
    IF u.a >= v.a THEN round_frac(c, t, frac(u.n, u.a, v.n, v.a))
    ELSE round_frac(c, t, frac(v.n, v.a, u.n, u.a))

exact_sum(n1, s1, n2, s2, S) == canon(shift_left(n1, S - s1) + shift_left(n2, S - s2), S)

\* A sum that the grid of its binade holds is exact.
sum_at(c, t, n1, s1, n2, s2) ==
    IF t >= Max(s1, s2) THEN exact_sum(n1, s1, n2, s2, Max(s1, s2))
    ELSE rounded_sum(c, t, term(n1, s1 - t), term(n2, s2 - t))

\* The residual of the binary64 nearest to the real number
\* hi * 10^4 + c / 10^4 + n1 / (625 * 2^s1) + n2 / (625 * 2^s2).
nearest(hi, c, n1, s1, n2, s2) ==
    IF n1 = 0 /\ n2 = 0 /\ c % FIVE4 = 0 THEN [n |-> 0, s |-> 4]
    ELSE IF hi # 0 THEN sum_at(c, MANT_BITS - SENTINEL_BINADE, n1, s1, n2, s2)
    ELSE IF c = 0 THEN exact_sum(n1, s1, n2, s2, Max(s1, s2))
    ELSE sum_at(c, MANT_BITS - binade(c, res_sign(n1, s1, n2, s2)), n1, s1, n2, s2)

\* The residual of a literal: the decimal c / 10^4 rounded to binary64.
literal(c) ==
    IF c % FIVE4 = 0 THEN [n |-> 0, s |-> 4]
    ELSE round_at(c, MANT_BITS - binade(c, 0), 0, -1)

with_residual(hi, c, r) == [hi |-> hi, c |-> c, n |-> r.n, s |-> r.s]

\* A literal, or a value of a number field.
float(c) == with_residual(0, c, literal(c))

fadd(x, y) ==
    with_residual(x.hi + y.hi, x.c + y.c,
                  nearest(x.hi + y.hi, x.c + y.c, x.n, x.s, y.n, y.s))

fsub(x, y) ==
    with_residual(x.hi - y.hi, x.c - y.c,
                  nearest(x.hi - y.hi, x.c - y.c, x.n, x.s, -y.n, y.s))

\* hi is 0 or the sentinel's, which no c makes up for.
flt(x, y) ==
    \/ x.hi < y.hi
    \/ x.hi = y.hi /\ (x.c < y.c \/ (x.c = y.c /\ res_sign(x.n, x.s, -y.n, y.s) < 0))

\* round(x, 3): the result in units of 1/1000.  A decimal tie is decided by
\* the binary value, and goes to the even neighbour when that is the tie.
round3(x) ==
    LET q == x.c \div 10
        m == x.c % 10
    IN  IF m > 5 \/ (m = 5 /\ (x.n > 0 \/ (x.n = 0 /\ q % 2 = 1))) THEN q + 1 ELSE q

(***************************************************************************)
(* build_rows.  The frame of one call is the record                        *)
(*   [rows, last_shifted, shift, idx, exc, msg]                            *)
(* with last_shifted a float and shift a whole number of octaves, and      *)
(* with exc = "" while no exception has been raised.  A message is a       *)
(* string like any other: the literal parts of the f-string are kept as    *)
(* single elements, the interpolated names character by character.         *)
(***************************************************************************)
OCTAVE == 1200 * U

DEFAULT_TOL == 100 * U

\* line 163: -1e9 cents.
SENTINEL == [hi |-> -100000, c |-> 0, n |-> 0, s |-> 4]

NewFrame ==
    [rows |-> <<>>, last_shifted |-> SENTINEL, shift |-> 0, idx |-> 0,
     exc |-> "", msg |-> <<>>]

raise(fr, exc, msg) == [fr EXCEPT !.exc = exc, !.msg = msg]

\* Mutant: the tolerance counted twice.
is_wrap_wide(proposed, last_shifted, small_backstep_tol) ==
    flt(proposed, fsub(fsub(last_shifted, small_backstep_tol), small_backstep_tol))

\* line 177: the wrap decision.
is_wrap(proposed, last_shifted, small_backstep_tol) ==
    flt(proposed, fsub(last_shifted, small_backstep_tol))

\* Mutant: a wrap adds two octaves.
bump_twice(shift) == shift + 2 * OCTAVE

\* line 178: the octave bump.  The shift is a whole number of octaves.
bump(shift) == shift + OCTAVE

\* line 169: the alias base is read from the table directly.
resolve_base(base) ==
    IF base = <<"s","i","b">> THEN BASE_FROM_RE[<<"s","i","b">>] ELSE base_cents(base)

make_row(idx, token, proposed, freq, dist) ==
    [idx |-> idx, pitch |-> token, cents_from_re |-> round3(proposed),
     frequency_hz |-> freq, nut_to_fret |-> dist]

\* lines 174-192: one resolved entry.
emit(fr, token, base_c, acc_c, f_open, scale_len, small_backstep_tol) ==
    LET unshifted == fadd(float(base_c), float(acc_c))
        proposed0 == fadd(unshifted, float(fr.shift))
        wrap == is_wrap(proposed0, fr.last_shifted, float(small_backstep_tol))
        shift1 == IF wrap THEN bump(fr.shift) ELSE fr.shift
        proposed == IF wrap THEN fadd(unshifted, float(shift1)) ELSE proposed0
        freq == freq_from_open(f_open, proposed.c)
        dist == nut_to_fret_distance(scale_len, proposed.c)
    IN  [fr EXCEPT !.shift = shift1,
                   !.idx = fr.idx + 1,
                   !.rows = Append(fr.rows, make_row(fr.idx + 1, token, proposed, freq, dist)),
                   !.last_shifted = proposed]

\* lines 167-192: the body of the loop for one token.
loop_body(fr, token, f_open, scale_len, cents_table, small_backstep_tol) ==
    LET p == parse_token(token)
    IN  IF p.exc # ""
        THEN raise(fr, p.exc, <<"too many values to unpack (expected 2)">>)
        ELSE IF p.base # <<"s","i","b">> /\ ~base_known(p.base)
        THEN raise(fr, "KeyError", <<"Unknown base note: '">> \o p.base \o <<"'">>)
        ELSE IF p.acc \notin DOMAIN cents_table
        THEN raise(fr, "KeyError",
                   <<"Unknown accidental '">> \o p.acc \o <<"' in token '">>
                       \o token \o <<"'">>)
        ELSE emit(fr, token, resolve_base(p.base), cents_table[p.acc],
                  f_open, scale_len, small_backstep_tol)

RECURSIVE run_loop(_, _, _, _, _, _)
run_loop(fr, order_list, f_open, scale_len, cents_table, small_backstep_tol) ==
    IF order_list = <<>> \/ fr.exc # "" THEN fr
    ELSE run_loop(loop_body(fr, Head(order_list), f_open, scale_len, cents_table,
                            small_backstep_tol),
                  Tail(order_list), f_open, scale_len, cents_table, small_backstep_tol)

\* Mutant: the rows built before the exception are handed back with it.
result_of_partial(fr) == [df |-> fr.rows, exc |-> fr.exc, msg |-> fr.msg]

\* What a caller gets: the table (df) or the exception; never both.
result_of(fr) ==
    IF fr.exc # "" THEN [df |-> <<>>, exc |-> fr.exc, msg |-> fr.msg]
    ELSE [df |-> fr.rows, exc |-> "", msg |-> <<>>]

build_rows(order_list, f_open, scale_len, cents_table) ==
    result_of(run_loop(NewFrame, order_list, f_open, scale_len, cents_table, DEFAULT_TOL))

(***************************************************************************)
(* Defaults of the script.                                                 *)
(***************************************************************************)
DEFAULT_REF_HZ == 44000

DEFAULT_SCALE == 58000

MIN_VALUE == 1

DEFAULT_ORDER ==
    <<"m","i"," ","b","2",","," ","m","i"," ","b",","," ","m","i",",","\n">> \o
    <<"f","a",","," ","f","a","#","3",","," ","f","a","#",",","\n">> \o
    <<"s","o","l",","," ","s","o","l","#","3",","," ","s","o","l","#",",","\n">> \o
    <<"l","a",",","\n">> \o
    <<"s","i"," ","b","2",","," ","s","i"," ","b",","," ","s","i",",","\n">> \o
    <<"d","o",","," ","d","o"," ","#","3",","," ","d","o"," ","#",",","\n">> \o
    <<"r","e",",","\n">> \o
    <<"m","i"," ","b","2",","," ","m","i"," ","b",","," ","m","i">>

NATURALS_ORDER ==
    <<"m","i",","," ","f","a",","," ","f","a","#",","," ","s","o","l",","," ","s","o","l","#",","," ">> \o
    <<"l","a",","," ","s","i",","," ","d","o",","," ","d","o","#",","," ","r","e",","," ","m","i">>

OrderChoices == {"Lower string", "Naturals"}

ORDER_PRESETS ==
    [c \in OrderChoices |->
        IF c = "Lower string" THEN DEFAULT_ORDER ELSE NATURALS_ORDER]


(***************************************************************************)
(* Widgets (Streamlit).  The form is not part of src/app.py: the script    *)
(* only passes min_value to it (lines 206-207, 279-281).  A number_input   *)
(* with min_value is taken never to hand the script a smaller value: the   *)
(* entry is refused (the field keeps its value) or clamped to min_value,   *)
(* depending on the front end.  A widget without a key is identified by    *)
(* its arguments: while they stay the same it keeps what the user put in   *)
(* it, and when they change it is a new widget showing its value argument. *)
(***************************************************************************)
number_input(min_value, current, entered) ==
    IF entered >= min_value THEN {entered} ELSE {current, min_value}

keyless_widget(old_value_arg, new_value_arg, shown) ==
    IF new_value_arg = old_value_arg THEN shown ELSE new_value_arg

(***************************************************************************)
(* Bounds and input sets of the model.                                     *)
(***************************************************************************)
MaxTokens == 4

MaxTyped == 3

\* What a user types into a number field of the sidebar (1/100 units).
NumberEntries == {-100, 0, 1}

\* The numbers a caller hands to build_rows (1/100 units).
CallNumbers == {-100, 0, 1, DEFAULT_REF_HZ, DEFAULT_SCALE}

\* The lists a caller hands to build_rows.
CallTokens == { <<"d","o">>, <<"r","e">>, <<"m","i"," ","b","2">>, <<"x","y","z">> }

CallLists == UNION { [1..n -> CallTokens] : n \in 1..2 }

\* What a user types into a number field of the second panel.
NumberEntries2 == {0, 1}

\* What a user types into the b, b2 and #3 fields: a fine-tuned comma
\* (22.6416 c).
TunedCommas == [b |-> -226416, b2 |-> -452832, s3 |-> 679248]

CommaEntries ==
    [b |-> {TunedCommas.b}, b2 |-> {TunedCommas.b2}, s3 |-> {TunedCommas.s3}]

\* The table with the three fields fine-tuned.
TunedTable == WorkingTable(TunedCommas.b, TunedCommas.b2, TunedCommas.s3)

\* Texts a user may leave in the pitch-order box of the main panel.
OrderEdits ==
    { <<"d","o",","," ","r","e",","," ","m","i">>,
      <<"l","a",","," ","x","y","z">> }

\* Tokens handed to build_rows, one call at a time.
ResolverTokens ==
    { <<"d","o">>, <<"r","e">>, <<"m","i">>, <<"m","i"," ","b","2">>,
      <<"s","i"," ","b","2">>, <<"s","i","b"," ","b","2">>,
      <<"d","o","#"," ","#","5">>, <<"r","e"," ","b","4">>,
      <<"S","i","b">>, <<" ","s","i"," ",FLAT_GLYPH," ">>,
      <<"x","y","z">>, <<"m","i"," ","q">>, <<"m","i"," ","b"," ","2">> }

\* Tokens and separators typed into the order box of the second panel.
TypedTokens ==
    { <<"m","i">>, <<"m","i"," ","b","2">>, <<"x","y","z">>, <<>> }

TypedSeparators == { <<",">>, <<"\n">>, <<"\r","\n">>, <<" ",","," ">>, <<>> }

DEFAULT_ORDER_TOKENS ==
    << <<"m","i"," ","b","2">>,
       <<"m","i"," ","b">>,
       <<"m","i">>,
       <<"f","a">>,
       <<"f","a","#","3">>,
       <<"f","a","#">>,
       <<"s","o","l">>,
       <<"s","o","l","#","3">>,
       <<"s","o","l","#">>,
       <<"l","a">>,
       <<"s","i"," ","b","2">>,
       <<"s","i"," ","b">>,
       <<"s","i">>,
       <<"d","o">>,
       <<"d","o"," ","#","3">>,
       <<"d","o"," ","#">>,
       <<"r","e">>,
       <<"m","i"," ","b","2">>,
       <<"m","i"," ","b">>,
       <<"m","i">> >>

VARIABLES
    ref_hz, scale_len, preset_name, cents_table,
    session_order_text, order_text, text_area_value, df, error,
    ref_hz2, scale_len2, order_text2, typed2, closed2, shown2, df2, error2,
    order_list, rows, last_shifted, shift, idx, pc

sidebar_vars == <<ref_hz, scale_len, preset_name, cents_table>>
text_vars == <<session_order_text, order_text, text_area_value>>
main_vars == <<text_vars, df, error>>
panel2_vars ==
    <<ref_hz2, scale_len2, order_text2, typed2, closed2, shown2, df2, error2>>
loop_vars == <<order_list, rows, last_shifted, shift, idx>>
frame_vars == <<loop_vars, pc>>
vars == <<sidebar_vars, main_vars, panel2_vars, frame_vars>>

NoError == [exc |-> "", msg |-> <<>>]

(***************************************************************************)
(* The script, first run.                                                  *)
(***************************************************************************)
\* lines 260-271: the main table, or the message of the exception caught.
\* df.iloc[0] raises IndexError on a table without rows.
main_output(res) ==
    IF res.exc = "" /\ res.df = <<>>
    THEN [df |-> <<>>, exc |-> "IndexError",
          msg |-> <<"single positional indexer is out-of-bounds">>]
    ELSE res

\* st.session_state without the key "order_text".
NOT_IN_SESSION == <<"order_text not in st.session_state">>

\* lines 229-230, and line 262: st.session_state.get("order_text", DEFAULT_ORDER).
session_get(session) == IF session = NOT_IN_SESSION THEN DEFAULT_ORDER ELSE session

main_compute(session, ref, scale, table) ==
    main_output(build_rows(parse_order(session_get(session)), ref, scale, table))

RunMain(session, ref, scale, table) ==
    \E out \in {main_compute(session, ref, scale, table)} :
        /\ df' = out.df
        /\ error' = [exc |-> out.exc, msg |-> out.msg]

InitSidebar ==
    /\ ref_hz = DEFAULT_REF_HZ
    /\ scale_len = DEFAULT_SCALE
    /\ preset_name = "Folk"
    /\ cents_table = PresetTable("Folk")

InitMain ==
    /\ session_order_text = DEFAULT_ORDER
    /\ order_text = DEFAULT_ORDER
    /\ text_area_value = DEFAULT_ORDER
    /\ LET out == main_compute(DEFAULT_ORDER, DEFAULT_REF_HZ, DEFAULT_SCALE,
                               PresetTable("Folk"))
       IN  /\ df = out.df
           /\ error = [exc |-> out.exc, msg |-> out.msg]

InitPanel2 ==
    /\ ref_hz2 = DEFAULT_REF_HZ
    /\ scale_len2 = DEFAULT_SCALE
    /\ order_text2 = DEFAULT_ORDER
    /\ typed2 = DEFAULT_ORDER_TOKENS
    /\ closed2 = FALSE
    /\ shown2 = FALSE
    /\ df2 = <<>>
    /\ error2 = NoError

InitFrame ==
    /\ order_list = <<>>
    /\ rows = <<>>
    /\ last_shifted = SENTINEL
    /\ shift = 0
    /\ idx = 0
    /\ pc = "idle"

Init == InitSidebar /\ InitMain /\ InitPanel2 /\ InitFrame

(***************************************************************************)
(* Main panel: every interaction reruns the script, which rebuilds the     *)
(* main table from st.session_state.order_text.  A run that ends in        *)
(* st.experimental_rerun() stops there (pc = "rerun"): the page keeps the  *)
(* table of the run before until the run that follows has built its own.   *)
(* text_area_value is the value argument the text area had in the latest   *)
(* run.                                                                    *)
(***************************************************************************)
EnterRefHz(v) ==
    /\ pc = "idle"
    /\ ref_hz' \in number_input(MIN_VALUE, ref_hz, v)
    /\ RunMain(session_order_text, ref_hz', scale_len, cents_table)
    /\ UNCHANGED <<scale_len, preset_name, cents_table, text_vars>>
    /\ UNCHANGED <<panel2_vars, frame_vars>>

EnterScaleLen(v) ==
    /\ pc = "idle"
    /\ scale_len' \in number_input(MIN_VALUE, scale_len, v)
    /\ RunMain(session_order_text, ref_hz, scale_len', cents_table)
    /\ UNCHANGED <<ref_hz, preset_name, cents_table, text_vars>>
    /\ UNCHANGED <<panel2_vars, frame_vars>>

\* lines 211-226: a comma field whose preset value changes is a new widget.
SelectPreset(p) ==
    /\ pc = "idle"
    /\ preset_name' = p
    /\ cents_table' =
         WorkingTable(
           keyless_widget(PRESET_CENTS[preset_name].b, PRESET_CENTS[p].b,
                          cents_table[<<"b">>]),
           keyless_widget(PRESET_CENTS[preset_name].b2, PRESET_CENTS[p].b2,
                          cents_table[<<"b","2">>]),
           keyless_widget(PRESET_CENTS[preset_name].s3, PRESET_CENTS[p].s3,
                          cents_table[<<"#","3">>]))
    /\ RunMain(session_order_text, ref_hz, scale_len, cents_table')
    /\ UNCHANGED <<ref_hz, scale_len, text_vars>>
    /\ UNCHANGED <<panel2_vars, frame_vars>>

\* lines 218-226: the user fine-tunes one comma field; the script reruns.
EnterB(v) ==
    /\ pc = "idle"
    /\ cents_table' = WorkingTable(v, cents_table[<<"b","2">>], cents_table[<<"#","3">>])
    /\ RunMain(session_order_text, ref_hz, scale_len, cents_table')
    /\ UNCHANGED <<ref_hz, scale_len, preset_name, text_vars>>
    /\ UNCHANGED <<panel2_vars, frame_vars>>

EnterB2(v) ==
    /\ pc = "idle"
    /\ cents_table' = WorkingTable(cents_table[<<"b">>], v, cents_table[<<"#","3">>])
    /\ RunMain(session_order_text, ref_hz, scale_len, cents_table')
    /\ UNCHANGED <<ref_hz, scale_len, preset_name, text_vars>>
    /\ UNCHANGED <<panel2_vars, frame_vars>>

EnterS3(v) ==
    /\ pc = "idle"
    /\ cents_table' = WorkingTable(cents_table[<<"b">>], cents_table[<<"b","2">>], v)
    /\ RunMain(session_order_text, ref_hz, scale_len, cents_table')
    /\ UNCHANGED <<ref_hz, scale_len, preset_name, text_vars>>
    /\ UNCHANGED <<panel2_vars, frame_vars>>

\* line 240: the value the text area returns is bound to order_text and not
\* read again; session_state.order_text is not written.
EditOrderText(t) ==
    /\ pc = "idle"
    /\ order_text' = t
    /\ RunMain(session_order_text, ref_hz, scale_len, cents_table)
    /\ UNCHANGED <<sidebar_vars, session_order_text, text_area_value>>
    /\ UNCHANGED <<panel2_vars, frame_vars>>

\* The run the button starts, lines 204-245: the text area is drawn from the
\* session text, then the session text is replaced and the run ends.
ApplyOrderPreset(choice) ==
    /\ pc = "idle"
    /\ order_text' = keyless_widget(text_area_value, session_order_text, order_text)
    /\ text_area_value' = session_order_text
    /\ session_order_text' = ORDER_PRESETS[choice]
    /\ pc' = "rerun"
    /\ UNCHANGED <<df, error>>
    /\ UNCHANGED <<sidebar_vars, panel2_vars, loop_vars>>

\* The run the button starts, lines 204-258: the text area is drawn from the
\* session text, then the key is deleted and the run ends.
Reset ==
    /\ pc = "idle"
    /\ order_text' = keyless_widget(text_area_value, session_order_text, order_text)
    /\ text_area_value' = session_order_text
    /\ session_order_text' = NOT_IN_SESSION
    /\ pc' = "rerun"
    /\ UNCHANGED <<df, error>>
    /\ UNCHANGED <<sidebar_vars, panel2_vars, loop_vars>>

\* The run that st.experimental_rerun() starts, lines 204-271: a missing
\* session text is set to DEFAULT_ORDER (lines 229-230), the text area is
\* drawn from the session text and the table is built.
Rerun ==
    /\ pc = "rerun"
    /\ session_order_text' = session_get(session_order_text)
    /\ order_text' = keyless_widget(text_area_value, session_order_text', order_text)
    /\ text_area_value' = session_order_text'
    /\ RunMain(session_order_text', ref_hz, scale_len, cents_table)
    /\ pc' = "idle"
    /\ UNCHANGED <<sidebar_vars, panel2_vars, loop_vars>>

\* lines 250, 260: the button reruns the script; the table is built either way.
Compute ==
    /\ pc = "idle"
    /\ RunMain(session_order_text, ref_hz, scale_len, cents_table)
    /\ UNCHANGED <<sidebar_vars, text_vars>>
    /\ UNCHANGED <<panel2_vars, frame_vars>>

Next ==
    \/ \E v \in NumberEntries : EnterRefHz(v)
    \/ \E v \in NumberEntries : EnterScaleLen(v)
    \/ \E p \in PresetNames : SelectPreset(p)
    \/ \E v \in CommaEntries.b : EnterB(v)
    \/ \E v \in CommaEntries.b2 : EnterB2(v)
    \/ \E v \in CommaEntries.s3 : EnterS3(v)
    \/ \E t \in OrderEdits : EditOrderText(t)
    \/ \E c \in OrderChoices : ApplyOrderPreset(c)
    \/ Reset
    \/ Rerun
    \/ Compute

Spec == Init /\ [][Next]_vars

(***************************************************************************)
(* Second panel (lines 276-294): its widgets have keys, its text area's    *)
(* value is what build_rows gets, and its table shows only in the run of   *)
(* the script that the button "Compute (2)" starts.  typed2 records what   *)
(* the user has typed, entry by entry (the token of each entry, empty when *)
(* only a separator was typed), closed2 whether the text ends in a         *)
(* separator, shown2 whether this run of the script shows a result.        *)
(***************************************************************************)
HidePanel2 == shown2' = FALSE /\ df2' = <<>> /\ error2' = NoError

ClearOrder2 ==
    /\ order_text2' = <<>>
    /\ typed2' = <<>>
    /\ closed2' = TRUE
    /\ HidePanel2
    /\ UNCHANGED <<ref_hz2, scale_len2>>
    /\ UNCHANGED <<sidebar_vars, main_vars, frame_vars>>

\* The user types a token (or nothing) and then a separator (or nothing).  A
\* token is typed only where the text ends in a separator.
TypeEntry2(tok, sep) ==
    /\ Len(typed2) < MaxTyped
    /\ tok # <<>> \/ sep # <<>>
    /\ tok # <<>> => closed2
    /\ order_text2' = order_text2 \o tok \o sep
    /\ typed2' = Append(typed2, tok)
    /\ closed2' = (sep # <<>>)
    /\ HidePanel2
    /\ UNCHANGED <<ref_hz2, scale_len2>>
    /\ UNCHANGED <<sidebar_vars, main_vars, frame_vars>>

EnterRefHz2(v) ==
    /\ ref_hz2' \in number_input(MIN_VALUE, ref_hz2, v)
    /\ HidePanel2
    /\ UNCHANGED <<scale_len2, order_text2, typed2, closed2>>
    /\ UNCHANGED <<sidebar_vars, main_vars, frame_vars>>

EnterScaleLen2(v) ==
    /\ scale_len2' \in number_input(MIN_VALUE, scale_len2, v)
    /\ HidePanel2
    /\ UNCHANGED <<ref_hz2, order_text2, typed2, closed2>>
    /\ UNCHANGED <<sidebar_vars, main_vars, frame_vars>>

\* lines 286-294: the comma table is the one of the sidebar.
Compute2 ==
    /\ \E res \in {build_rows(parse_order(order_text2), ref_hz2, scale_len2, cents_table)} :
           /\ df2' = res.df
           /\ error2' = [exc |-> res.exc, msg |-> res.msg]
    /\ shown2' = TRUE
    /\ UNCHANGED <<ref_hz2, scale_len2, order_text2, typed2, closed2>>
    /\ UNCHANGED <<sidebar_vars, main_vars, frame_vars>>

NextPanel2 ==
    \/ ClearOrder2
    \/ \E tok \in TypedTokens, sep \in TypedSeparators : TypeEntry2(tok, sep)
    \/ \E v \in NumberEntries2 : EnterRefHz2(v)
    \/ \E v \in NumberEntries2 : EnterScaleLen2(v)
    \/ Compute2

SpecPanel2 == Init /\ [][NextPanel2]_vars

(***************************************************************************)
(* One call build_rows(order_list, ref_hz, scale_len, cents_table), one    *)
(* iteration of its loop at a time.  The list is any list of at most       *)
(* MaxTokens tokens: order_list holds the tokens the loop has taken so     *)
(* far.  The sidebar holds a preset or the fine-tuned commas.              *)
(***************************************************************************)
InitResolver ==
    /\ ref_hz = DEFAULT_REF_HZ
    /\ scale_len = DEFAULT_SCALE
    /\ \E p \in PresetNames, tuned \in BOOLEAN :
          /\ tuned => p = "AEU"
          /\ preset_name = p
          /\ cents_table = IF tuned
                           THEN TunedTable
                           ELSE PresetTable(p)
    /\ session_order_text = DEFAULT_ORDER
    /\ order_text = DEFAULT_ORDER
    /\ text_area_value = DEFAULT_ORDER
    /\ df = <<>>
    /\ error = NoError
    /\ InitPanel2
    /\ order_list = <<>>
    /\ rows = <<>>
    /\ last_shifted = SENTINEL
    /\ shift = 0
    /\ idx = 0
    /\ pc = "loop"

Frame ==
    [rows |-> rows, last_shifted |-> last_shifted, shift |-> shift, idx |-> idx,
     exc |-> "", msg |-> <<>>]

\* One iteration that resolves its token.
Iterate(token) ==
    /\ pc = "loop"
    /\ Len(order_list) < MaxTokens
    /\ \E fr \in {loop_body(Frame, token, ref_hz, scale_len, cents_table, DEFAULT_TOL)} :
           /\ fr.exc = ""
           /\ rows' = fr.rows
           /\ last_shifted' = fr.last_shifted
           /\ shift' = fr.shift
           /\ idx' = fr.idx
    /\ order_list' = Append(order_list, token)
    /\ UNCHANGED <<pc, df, error>>
    /\ UNCHANGED <<sidebar_vars, text_vars, panel2_vars>>

\* One iteration that raises: the call ends without a table.
RaiseInLoop(token) ==
    /\ pc = "loop"
    /\ Len(order_list) < MaxTokens
    /\ \E fr \in {loop_body(Frame, token, ref_hz, scale_len, cents_table, DEFAULT_TOL)} :
           /\ fr.exc # ""
           /\ df' = result_of(fr).df
           /\ error' = [exc |-> result_of(fr).exc, msg |-> result_of(fr).msg]
    /\ order_list' = Append(order_list, token)
    /\ pc' = "raised"
    /\ UNCHANGED <<rows, last_shifted, shift, idx>>
    /\ UNCHANGED <<sidebar_vars, text_vars, panel2_vars>>

\* The list is exhausted: line 194.
Return ==
    /\ pc = "loop"
    /\ \E res \in {result_of(Frame)} :
           /\ df' = res.df
           /\ error' = [exc |-> res.exc, msg |-> res.msg]
    /\ pc' = "returned"
    /\ UNCHANGED <<order_list, rows, last_shifted, shift, idx>>
    /\ UNCHANGED <<sidebar_vars, text_vars, panel2_vars>>

NextResolver ==
    \/ \E token \in ResolverTokens : Iterate(token)
    \/ \E token \in ResolverTokens : RaiseInLoop(token)
    \/ Return

SpecResolver == InitResolver /\ [][NextResolver]_vars

(***************************************************************************)
(* One call build_rows(order_list, ref_hz, scale_len, cents_table) by any  *)
(* caller, as a whole: the function takes the numbers it is given.         *)
(***************************************************************************)
InitCall ==
    /\ ref_hz \in CallNumbers
    /\ scale_len \in CallNumbers
    /\ \E p \in PresetNames : preset_name = p /\ cents_table = PresetTable(p)
    /\ session_order_text = DEFAULT_ORDER
    /\ order_text = DEFAULT_ORDER
    /\ text_area_value = DEFAULT_ORDER
    /\ df = <<>>
    /\ error = NoError
    /\ InitPanel2
    /\ order_list \in CallLists
    /\ rows = <<>>
    /\ last_shifted = SENTINEL
    /\ shift = 0
    /\ idx = 0
    /\ pc = "call"

\* line 194: the call hands back its table.
CallReturns ==
    /\ pc = "call"
    /\ \E res \in {build_rows(order_list, ref_hz, scale_len, cents_table)} :
           /\ res.exc = ""
           /\ df' = res.df
           /\ error' = NoError
    /\ pc' = "returned"
    /\ UNCHANGED <<sidebar_vars, text_vars, panel2_vars, loop_vars>>

\* lines 167-172: the call raises.
CallRaises ==
    /\ pc = "call"
    /\ \E res \in {build_rows(order_list, ref_hz, scale_len, cents_table)} :
           /\ res.exc # ""
           /\ df' = res.df
           /\ error' = [exc |-> res.exc, msg |-> res.msg]
    /\ pc' = "raised"
    /\ UNCHANGED <<sidebar_vars, text_vars, panel2_vars, loop_vars>>

NextCall == CallReturns \/ CallRaises

SpecCall == InitCall /\ [][NextCall]_vars

(***************************************************************************)
(* Properties.                                                             *)
(***************************************************************************)
\* One cent in the unit of cents_from_re (1/1000 cent).
Cent3 == 10 * 100

Last(seq) == seq[Len(seq)]

NonEmpty(t) == t # <<>>

\* parse_token of every token of the input sets.
ParsedTokens ==
    [t \in ResolverTokens \cup TypedTokens
            \cup {DEFAULT_ORDER_TOKENS[i] : i \in DOMAIN DEFAULT_ORDER_TOKENS}
        |-> parse_token(t)]

\* base cents + accidental cents of a token, read off the tables.
Unshifted(token) ==
    BASE_FROM_RE[ParsedTokens[token].base] + cents_table[ParsedTokens[token].acc]

\* A decimal value to three places, as a table row shows it.
Shown(c) == round3(float(c))

\* The loop has just taken one more token and goes on.
Resolved == pc = "loop" /\ pc' = "loop" /\ Len(order_list') = Len(order_list) + 1

IsInfix(sub, seq) ==
    \E i \in 1..(Len(seq) - Len(sub) + 1) : SubSeq(seq, i, i + Len(sub) - 1) = sub

RECURSIVE JoinComma(_)
JoinComma(toks) ==
    IF toks = <<>> THEN <<>>
    ELSE IF Len(toks) = 1 THEN Head(toks)
    ELSE Head(toks) \o <<",", " ">> \o JoinComma(Tail(toks))

\* base cents + accidental cents of every resolved entry.
UnshiftedAll == [i \in 1..Len(rows) |-> Unshifted(order_list[i])]

\* Wrap count of every row as the output shows it, un being UnshiftedAll.
WrapCounts(un) ==
    [i \in 1..Len(rows) |-> (rows[i].cents_from_re - Shown(un[i])) \div (1200 * Cent3)]

\* C1: with tolerance 100, an entry after the first whose proposed value
\* (base + accidental + current shift) is exactly 100 cents below the value
\* emitted before it does not wrap (shift unchanged, proposed emitted); one
\* that is more than 100 cents below wraps exactly once (shift + 1200, and
\* proposed + 1200 emitted).
C1_WrapBoundary ==
    [][(Resolved /\ idx >= 1) =>
         LET proposed == Unshifted(Last(order_list')) + shift
         IN  /\ proposed = last_shifted.c - 100 * U =>
                    (shift' = shift /\ last_shifted'.c = proposed)
             /\ proposed < last_shifted.c - 100 * U =>
                    (shift' = shift + 1200 * U /\ last_shifted'.c = proposed + 1200 * U)
             /\ rows'[idx'].cents_from_re = round3(last_shifted')]_vars

BadToken(token) ==
    /\ ParsedTokens[token].exc = ""
    /\ \/ ParsedTokens[token].base \notin DOMAIN BASE_FROM_RE
       \/ ParsedTokens[token].acc \notin DOMAIN cents_table

\* C2: no partial success.  When a token of the list, at any position, has a
\* base that is not in the base table or an accidental that is not in the
\* active table, the call ends in an error and hands back no row, whatever
\* was resolved before it; the message names the offending base, or the
\* token with the offending accidental.
C2_NoPartialSuccess ==
    /\ pc = "raised" => df = <<>> /\ error.exc # ""
    /\ \A i \in 1..Len(order_list) :
          BadToken(order_list[i]) =>
              LET p == ParsedTokens[order_list[i]]
              IN  /\ pc = "raised"
                  /\ df = <<>>
                  /\ error.exc = "KeyError"
                  /\ IF p.base \notin DOMAIN BASE_FROM_RE
                     THEN error.msg = <<"Unknown base note: '">> \o p.base \o <<"'">>
                     ELSE /\ IsInfix(order_list[i], error.msg)
                          /\ IsInfix(p.acc, error.msg)

\* An unknown base after two resolved entries: the call raised, no row is
\* handed back.
C2_Witness ==
    /\ pc = "raised"
    /\ Len(rows) = 2
    /\ Last(order_list) = <<"x","y","z">>
    /\ error.msg = <<"Unknown base note: '", "x", "y", "z", "'">>
    /\ df = <<>>

\* C3: for a text whose tokens are all valid, parse_order then build_rows
\* gives one row per non-empty trimmed segment, in the order typed, numbered
\* 1..n, each labelled with its trimmed token; joining the tokens and
\* splitting again gives the same tokens.
C3_OneRowPerToken ==
    LET toks == SelectSeq(typed2, NonEmpty)
    IN  /\ parse_order(order_text2) = toks
        /\ parse_order(JoinComma(toks)) = toks
        /\ (shown2 /\ \A i \in 1..Len(toks) : ~BadToken(toks[i])) =>
              /\ error2 = NoError
              /\ Len(df2) = Len(toks)
              /\ \A i \in 1..Len(toks) : df2[i].idx = i /\ df2[i].pitch = toks[i]

\* A table of two rows from a text of three entries, one of them empty, with
\* a line break and padded separators in it.
C3_Witness ==
    /\ shown2
    /\ Len(df2) = 2
    /\ Len(typed2) = 3
    /\ contains(order_text2, "\n")
    /\ contains(order_text2, " ")
    /\ df2[2].pitch = <<"m","i"," ","b","2">>

\* C4: a call with a non-positive reference frequency or string length is
\* rejected before any row is computed: it ends in an error, and no row
\* comes out of it.
C4_NonPositiveRejected ==
    (pc \in {"returned", "raised"} /\ (ref_hz <= 0 \/ scale_len <= 0)) =>
        (df = <<>> /\ error.exc # "")

\* C5: every row carries a spacing from the previous row: 0 for the first
\* row, else its nut-to-fret distance minus the previous row's.
C5_SpacingInRows ==
    \A i \in 1..Len(df) :
        /\ "spacing" \in DOMAIN df[i]
        /\ df[i].spacing =
              IF i = 1 THEN 0 ELSE df[i].nut_to_fret - df[i - 1].nut_to_fret

AliasSpellings ==
    { <<"S","i","b">>, <<" ","s","i"," ",FLAT_GLYPH," ">> }

\* C6: the tokens "sib" and "si b", in any letter case, with surrounding
\* white space, with the ASCII or the Unicode flat, parse to (sib, no
\* accidental) and resolve to 800 cents plus the current shift, whatever the
\* accidental table gives to "b"; never to si (900) plus the flat.
C6_AliasIsBaseNote ==
    [][(pc = "loop" /\ Len(order_list') = Len(order_list) + 1
            /\ Last(order_list') \in AliasSpellings) =>
         /\ parse_token(Last(order_list')) =
                [exc |-> "", base |-> <<"s","i","b">>, acc |-> <<>>]
         /\ pc' = "loop"
         /\ last_shifted'.c = 800 * U + shift'
         /\ rows'[idx'].cents_from_re = 800 * Cent3 + Shown(shift')]_vars

\* "si b" with the Unicode flat, after a wrap, under the 24-EDO flat of -50.
C6_Witness ==
    /\ cents_table[<<"b">>] = -50 * U
    /\ \E i \in 1..Len(rows) :
          /\ order_list[i] = <<" ","s","i"," ",FLAT_GLYPH," ">>
          /\ rows[i].cents_from_re = 2000 * Cent3

\* C7: every emitted value is base + accidental + 1200 k, k the number of
\* wraps so far: k is 0 at the first entry, never decreases, grows by at
\* most 1 per entry, is the shift the loop holds, and does not grow at an
\* entry that lies above the value emitted before it (do, re, mi b2, mi with
\* the Folk table: 1000, 1200, 1354.72, 1400).
C7_ShiftCountsWraps ==
    \E un \in {UnshiftedAll} : \E k \in {WrapCounts(un)} :
        /\ \A i \in 1..Len(rows) :
              /\ rows[i].cents_from_re = Shown(un[i]) + k[i] * 1200 * Cent3
              /\ i = 1 => k[i] = 0
              /\ i > 1 => k[i] - k[i - 1] \in {0, 1}
              /\ (i > 1 /\ Shown(un[i]) + k[i - 1] * 1200 * Cent3
                               >= rows[i - 1].cents_from_re)
                    => k[i] = k[i - 1]
        /\ shift = (IF rows = <<>> THEN 0 ELSE k[Len(rows)]) * 1200 * U
        /\ rows # <<>> => last_shifted.c = un[Len(rows)] + shift
        /\ (cents_table = PresetTable("Folk") /\ Len(rows) = 4
              /\ SubSeq(order_list, 1, 4) =
                    << <<"d","o">>, <<"r","e">>, <<"m","i"," ","b","2">>, <<"m","i">> >>)
             => [i \in 1..4 |-> rows[i].cents_from_re] = <<1000000, 1200000, 1354720, 1400000>>

\* do, re, mi b2, mi resolved with the Folk table.
C7_Witness ==
    /\ cents_table = PresetTable("Folk")
    /\ preset_name = "Folk"
    /\ idx = 4
    /\ order_list = << <<"d","o">>, <<"r","e">>, <<"m","i"," ","b","2">>, <<"m","i">> >>
    /\ shift = 1200 * U

\* C8: the default pitch order ("Lower string (corrected, flatter to
\* sharper)") with the Folk table resolves to cents that never decrease from
\* one row to the next.
C8_DefaultOrderAscends ==
    (session_order_text = DEFAULT_ORDER /\ cents_table = PresetTable("Folk")) =>
        /\ error = NoError
        /\ \A i \in 2..Len(df) : df[i].cents_from_re >= df[i - 1].cents_from_re

\* C9: the main table is always the table of the text the pitch-order box
\* shows.
C9_TableFromTextBox ==
    [df |-> df, exc |-> error.exc, msg |-> error.msg] =
        main_compute(order_text, ref_hz, scale_len, cents_table)

\* C10 as stated: every emitted value after the first is at most 100 cents
\* below the value emitted before it.
C10_AtMostToleranceBelow ==
    \A i \in 2..Len(rows) :
        rows[i].cents_from_re >= rows[i - 1].cents_from_re - 100 * Cent3

\* C10, amended: an emitted value after the first is at most 100 cents below
\* the value emitted before it whenever its unshifted value (base +
\* accidental) is at most 1300 cents below the unshifted value of the entry
\* before it.
C10_AtMostToleranceBelowUnlessFarDrop ==
    \E un \in {UnshiftedAll} :
        \A i \in 2..Len(rows) :
            (un[i - 1] - un[i] <= 1300 * U) =>
                rows[i].cents_from_re >= rows[i - 1].cents_from_re - 100 * Cent3

\* do# #5 (1213.2) then re: one wrap, and re lands 13.2 cents below.
C10_Witness ==
    /\ Len(rows) >= 2
    /\ rows[1].cents_from_re = 1213200
    /\ rows[2].cents_from_re = 1200 * Cent3
    /\ shift = 1200 * U

====
